---- MODULE Spec2Model ----
(***************************************************************************)
(* Model of google_maps_mcp_server/handlers.py: the lazily built upstream  *)
(* client (get_gmaps_client), the seven tool handlers and the catalog      *)
(* TOOL_FUNCTIONS.  A Python dict is a function over the keys it holds, a  *)
(* Python list a sequence, a parameter that is None a key the parameter    *)
(* dict does not hold.  An exception is a record with the exception class  *)
(* and the message as the sequence of its parts (an f-string is the        *)
(* concatenation of its parts).                                            *)
(***************************************************************************)
EXTENDS Integers, Sequences, FiniteSets, TLC

VARIABLES
    environ,              \* the process environment's value of GOOGLE_MAPS_API_KEY
    GOOGLE_MAPS_API_KEY,  \* the module global set when the module is loaded
    gmaps,                \* the module global caching the client (NoClient = None)
    constructions,        \* how many googlemaps.Client objects were constructed
    last,                 \* the last completed call: input, outcome, requests sent
    pc, tmp, ret, objs    \* threads running get_gmaps_client statement by statement

vars == <<environ, GOOGLE_MAPS_API_KEY, gmaps, constructions, last, pc, tmp, ret, objs>>

-----------------------------------------------------------------------------
(* Bounds of the model *)
MaxLocs == 2      \* longest list of locations given to maps_elevation
MaxRoutes == 1    \* longest list of routes a directions response holds
NThreads == 2     \* threads racing in get_gmaps_client

(* Python values *)
NoClient == 0                 \* gmaps = None
PyNone == "None"              \* None among the opaque upstream values
Unset == "<unset>"            \* os.getenv of a variable that is not set
EmptyDict == [k \in {} |-> ""]

Has(d, k) == k \in DOMAIN d
Get(d, k, default) == IF k \in DOMAIN d THEN d[k] ELSE default
Merge(a, b) == [k \in DOMAIN a \cup DOMAIN b |-> IF k \in DOMAIN a THEN a[k] ELSE b[k]]

RECURSIVE SeqsUpTo(_, _)
SeqsUpTo(S, n) ==
    IF n = 0 THEN {<<>>}
    ELSE LET shorter == SeqsUpTo(S, n - 1)
         IN shorter \cup {Append(s, x) : s \in {t \in shorter : Len(t) = n - 1}, x \in S}

Raise(msg) == [ok |-> FALSE, exc |-> "ValueError", msg |-> msg]
Return(v) == [ok |-> TRUE, value |-> v]
Out(result, requests, g, cons) ==
    [result |-> result, requests |-> requests, gmaps |-> g, constructions |-> cons]

(* What the upstream service does with the one request of a call *)
UpstreamErrors == {"REQUEST_DENIED"}
Fails(m) == [ok |-> FALSE, err |-> m]
Answers(v) == [ok |-> TRUE, value |-> v]
UpstreamFailures == {Fails(m) : m \in UpstreamErrors}

-----------------------------------------------------------------------------
(* Client accessor *)
EnvValues == {Unset, "", "key"}

\* `not GOOGLE_MAPS_API_KEY`: None and the empty string are both falsy
KeyMissing(key) == key = Unset \/ key = ""

get_gmaps_client_always_new(g, key, cons) ==
    IF KeyMissing(key)
    THEN [raised |-> TRUE, msg |-> <<"GOOGLE_MAPS_API_KEY environment variable is not set">>,
          client |-> NoClient, gmaps |-> g, constructions |-> cons]
    ELSE [raised |-> FALSE, msg |-> <<>>,
          client |-> cons + 1, gmaps |-> cons + 1, constructions |-> cons + 1]

get_gmaps_client_reads_environ(g, key, cons) ==
    IF g = NoClient
    THEN IF KeyMissing(environ)
         THEN [raised |-> TRUE,
               msg |-> <<"GOOGLE_MAPS_API_KEY environment variable is not set">>,
               client |-> NoClient, gmaps |-> g, constructions |-> cons]
         ELSE [raised |-> FALSE, msg |-> <<>>,
               client |-> cons + 1, gmaps |-> cons + 1, constructions |-> cons + 1]
    ELSE [raised |-> FALSE, msg |-> <<>>, client |-> g, gmaps |-> g, constructions |-> cons]

\* One whole, uninterrupted run of get_gmaps_client; a new client is named by
\* its construction number.
get_gmaps_client(g, key, cons) ==
    IF g = NoClient
    THEN IF KeyMissing(key)
         THEN [raised |-> TRUE,
               msg |-> <<"GOOGLE_MAPS_API_KEY environment variable is not set">>,
               client |-> NoClient, gmaps |-> g, constructions |-> cons]
         ELSE [raised |-> FALSE, msg |-> <<>>,
               client |-> cons + 1, gmaps |-> cons + 1, constructions |-> cons + 1]
    ELSE [raised |-> FALSE, msg |-> <<>>, client |-> g, gmaps |-> g, constructions |-> cons]

\* `except Exception as e: raise ValueError(f"<prefix>: {e}")`
Wrapped(prefix, msg) == Raise(<<prefix>> \o msg)

\* d[k1], d[k2], ... in order: the first key that is missing raises KeyError(k)
RECURSIVE FirstMissing(_, _)
FirstMissing(d, keys) ==
    IF keys = <<>> THEN ""
    ELSE IF Has(d, Head(keys)) THEN FirstMissing(d, Tail(keys)) ELSE Head(keys)

KeyErrorText(k) == "'" \o k \o "'"

-----------------------------------------------------------------------------
(* maps_geocode and maps_reverse_geocode *)
GeoResult(n) ==
    [geometry |-> [location |-> "location" \o n], formatted_address |-> "address" \o n,
     place_id |-> "place" \o n, address_components |-> <<"component" \o n>>]
GeoResponses ==
    UpstreamFailures
    \cup {Answers(s) : s \in {<<>>, <<GeoResult("1")>>, <<GeoResult("2"), GeoResult("1")>>,
                              <<[formatted_address |-> "address3"]>>}}

GeocodeParams == {EmptyDict} \cup {[address |-> a] : a \in {"", "1600 Amphitheatre Parkway"}}

maps_geocode(p, up, g, key, cons) ==
    IF ~(Has(p, "address") /\ p.address # "")
    THEN Out(Raise(<<"address parameter is required">>), <<>>, g, cons)
    ELSE
    LET c == get_gmaps_client(g, key, cons)
        req == [op |-> "geocode", client |-> c.client, args |-> [address |-> p.address]]
        pre == "Geocoding error: "
    IN  IF c.raised THEN Out(Wrapped(pre, c.msg), <<>>, c.gmaps, c.constructions)
        ELSE IF ~up.ok THEN Out(Wrapped(pre, <<up.err>>), <<req>>, c.gmaps, c.constructions)
        ELSE IF up.value = <<>>
        THEN Out(Wrapped(pre, <<"No results found for the given address">>),
                 <<req>>, c.gmaps, c.constructions)
        ELSE
        LET result == up.value[1]
            miss == FirstMissing(result, <<"geometry", "formatted_address", "place_id">>)
        IN  IF miss # ""
            THEN Out(Wrapped(pre, <<KeyErrorText(miss)>>), <<req>>, c.gmaps, c.constructions)
            ELSE Out(Return([location |-> result.geometry.location,
                             formatted_address |-> result.formatted_address,
                             place_id |-> result.place_id]),
                     <<req>>, c.gmaps, c.constructions)

\* Coordinates on and just beyond each end of both ranges
LatLngs ==
    {<<-90, -180>>, <<90, 180>>, <<-91, 0>>, <<91, 180>>, <<0, -181>>, <<90, 181>>}
Coordinate(ll) == [latitude |-> ll[1], longitude |-> ll[2]]
ReverseGeocodeParams ==
    {EmptyDict, [latitude |-> 0], [longitude |-> 0]} \cup {Coordinate(ll) : ll \in LatLngs}

maps_reverse_geocode(p, up, g, key, cons) ==
    IF ~Has(p, "latitude") \/ ~Has(p, "longitude")
    THEN Out(Raise(<<"latitude and longitude parameters are required">>), <<>>, g, cons)
    ELSE IF ~(-90 <= p.latitude /\ p.latitude <= 90)
    THEN Out(Raise(<<"latitude must be between -90 and 90">>), <<>>, g, cons)
    ELSE IF ~(-180 <= p.longitude /\ p.longitude <= 180)
    THEN Out(Raise(<<"longitude must be between -180 and 180">>), <<>>, g, cons)
    ELSE
    LET c == get_gmaps_client(g, key, cons)
        req == [op |-> "reverse_geocode", client |-> c.client,
                args |-> [latlng |-> <<p.latitude, p.longitude>>]]
        pre == "Reverse geocoding error: "
    IN  IF c.raised THEN Out(Wrapped(pre, c.msg), <<>>, c.gmaps, c.constructions)
        ELSE IF ~up.ok THEN Out(Wrapped(pre, <<up.err>>), <<req>>, c.gmaps, c.constructions)
        ELSE IF up.value = <<>>
        THEN Out(Wrapped(pre, <<"No results found for the given coordinates">>),
                 <<req>>, c.gmaps, c.constructions)
        ELSE
        LET result == up.value[1]
            miss == FirstMissing(result,
                                 <<"formatted_address", "place_id", "address_components">>)
        IN  IF miss # ""
            THEN Out(Wrapped(pre, <<KeyErrorText(miss)>>), <<req>>, c.gmaps, c.constructions)
            ELSE Out(Return([formatted_address |-> result.formatted_address,
                             place_id |-> result.place_id,
                             address_components |-> result.address_components]),
                     <<req>>, c.gmaps, c.constructions)

-----------------------------------------------------------------------------
(* maps_search_places *)
Place1 ==
    [name |-> "name1", formatted_address |-> "address1",
     geometry |-> [location |-> "location1"], place_id |-> "place1", rating |-> "4.5",
     types |-> <<"cafe">>]
PlacesResponses ==
    UpstreamFailures \cup {Answers(EmptyDict), Answers([results |-> <<Place1, EmptyDict>>])}

Locations ==
    {EmptyDict, [latitude |-> 0], Coordinate(<<90, 180>>), Coordinate(<<91, 0>>)}
Radii == {0, 1, 50000, 50001}
SearchPlacesParams ==
    LET Loc == {EmptyDict} \cup {[location |-> l] : l \in Locations}
        Rad == {EmptyDict} \cup {[radius |-> r] : r \in Radii}
    IN  {EmptyDict, [query |-> ""]}
        \cup {Merge([query |-> "pizza"], Merge(l, r)) : l \in Loc, r \in Rad}

PlaceEntry(place) ==
    [name |-> Get(place, "name", ""),
     formatted_address |-> Get(place, "formatted_address", ""),
     location |-> Get(Get(place, "geometry", EmptyDict), "location", EmptyDict),
     place_id |-> Get(place, "place_id", ""),
     rating |-> Get(place, "rating", PyNone),
     types |-> Get(place, "types", <<>>)]

\* the range a radius passes: `radius <= 0 or radius > 50000` rejects
valid_radius(radius) == ~(radius <= 0 \/ radius > 50000)

search_params_location_alone(p) ==
    IF Has(p, "location") /\ DOMAIN p.location # {}
    THEN [location |-> <<p.location.latitude, p.location.longitude>>]
    ELSE EmptyDict

\* the keyword arguments added to `query`: lines 104-117, run once the location
\* holds both keys
search_params(p) ==
    IF Has(p, "location") /\ DOMAIN p.location # {}
       /\ Has(p, "radius") /\ p.radius # 0
    THEN [location |-> <<p.location.latitude, p.location.longitude>>, radius |-> p.radius]
    ELSE EmptyDict

maps_search_places(p, up, g, key, cons) ==
    IF ~(Has(p, "query") /\ p.query # "")
    THEN Out(Raise(<<"query parameter is required">>), <<>>, g, cons)
    ELSE IF Has(p, "radius") /\ ~valid_radius(p.radius)
    THEN Out(Raise(<<"radius must be between 1 and 50000 meters">>), <<>>, g, cons)
    ELSE
    LET c == get_gmaps_client(g, key, cons)
        pre == "Places search error: "
    IN  IF c.raised THEN Out(Wrapped(pre, c.msg), <<>>, c.gmaps, c.constructions)
        ELSE IF Has(p, "location") /\ DOMAIN p.location # {}
                /\ (~Has(p.location, "latitude") \/ ~Has(p.location, "longitude"))
        THEN Out(Wrapped(pre, <<"location must contain both latitude and longitude">>),
                 <<>>, c.gmaps, c.constructions)
        ELSE
        LET req == [op |-> "places", client |-> c.client,
                    args |-> [query |-> p.query, search_params |-> search_params(p)]]
        IN  IF ~up.ok
            THEN Out(Wrapped(pre, <<up.err>>), <<req>>, c.gmaps, c.constructions)
            ELSE
            LET results == Get(up.value, "results", <<>>)
            IN  Out(Return([places |-> [i \in 1..Len(results) |-> PlaceEntry(results[i])]]),
                    <<req>>, c.gmaps, c.constructions)

-----------------------------------------------------------------------------
(* maps_place_details *)
Review1 == [author_name |-> "author1", rating |-> 5, text |-> "text1", time |-> 1700000000]
PlaceData1 ==
    [name |-> "name1", formatted_address |-> "address1",
     geometry |-> [location |-> "location1"], formatted_phone_number |-> "phone1",
     website |-> "website1", rating |-> "4.5", reviews |-> <<Review1, EmptyDict>>,
     opening_hours |-> [open_now |-> "true"]]
DetailsResponses ==
    UpstreamFailures
    \cup {Answers(EmptyDict), Answers([result |-> EmptyDict]), Answers([result |-> PlaceData1])}
PlaceDetailsParams == {EmptyDict, [place_id |-> ""], [place_id |-> "place1"]}

DetailsFields ==
    <<"name", "formatted_address", "geometry", "formatted_phone_number", "website",
      "rating", "reviews", "opening_hours">>

ReviewEntry(review) ==
    [author_name |-> Get(review, "author_name", ""), rating |-> Get(review, "rating", 0),
     text |-> Get(review, "text", ""), time |-> Get(review, "time", 0)]

maps_place_details(p, up, g, key, cons) ==
    IF ~(Has(p, "place_id") /\ p.place_id # "")
    THEN Out(Raise(<<"place_id parameter is required">>), <<>>, g, cons)
    ELSE
    LET c == get_gmaps_client(g, key, cons)
        req == [op |-> "place", client |-> c.client,
                args |-> [place_id |-> p.place_id, fields |-> DetailsFields]]
        pre == "Place details error: "
    IN  IF c.raised THEN Out(Wrapped(pre, c.msg), <<>>, c.gmaps, c.constructions)
        ELSE IF ~up.ok THEN Out(Wrapped(pre, <<up.err>>), <<req>>, c.gmaps, c.constructions)
        ELSE
        LET place_data == Get(up.value, "result", EmptyDict)
            reviews == Get(place_data, "reviews", <<>>)
        IN  Out(Return(
                  [name |-> Get(place_data, "name", ""),
                   formatted_address |-> Get(place_data, "formatted_address", ""),
                   location |-> Get(Get(place_data, "geometry", EmptyDict), "location", EmptyDict),
                   formatted_phone_number |-> Get(place_data, "formatted_phone_number", ""),
                   website |-> Get(place_data, "website", ""),
                   rating |-> Get(place_data, "rating", PyNone),
                   reviews |-> [i \in 1..Len(reviews) |-> ReviewEntry(reviews[i])],
                   opening_hours |-> Get(place_data, "opening_hours", EmptyDict)]),
                <<req>>, c.gmaps, c.constructions)

-----------------------------------------------------------------------------
(* maps_distance_matrix *)
Modes == {"driving", "walking", "bicycling", "transit", "flying", "Driving"}
OptionalMode == {EmptyDict} \cup {[mode |-> m] : m \in Modes}

valid_modes_any == {"driving", "walking", "bicycling", "transit", "flying"}

valid_modes == {"driving", "walking", "bicycling", "transit"}

Element1 ==
    [status |-> "OK", duration |-> [value |-> 60, text |-> "1 min"],
     distance |-> [value |-> 1609, text |-> "1.0 mi"]]
MatrixResponses ==
    UpstreamFailures
    \cup {Answers(EmptyDict),
          Answers([origin_addresses |-> <<"A">>, destination_addresses |-> <<"B">>,
                   rows |-> <<[elements |-> <<Element1, [status |-> "NOT_FOUND"]>>],
                              EmptyDict>>])}
DistanceMatrixParams ==
    {Merge([origins |-> <<"A", "B">>, destinations |-> <<"C">>], m) : m \in OptionalMode}
    \cup {Merge(od, m) :
            od \in {[destinations |-> <<"C">>], [origins |-> <<>>, destinations |-> <<"C">>],
                    [origins |-> <<"A">>, destinations |-> <<>>]},
            m \in {EmptyDict, [mode |-> "flying"]}}

ElementEntry(element) ==
    [status |-> Get(element, "status", ""), duration |-> Get(element, "duration", PyNone),
     distance |-> Get(element, "distance", PyNone)]
RowEntry(row) ==
    LET elements == Get(row, "elements", <<>>)
    IN  [elements |-> [i \in 1..Len(elements) |-> ElementEntry(elements[i])]]

maps_distance_matrix(p, up, g, key, cons) ==
    IF ~(Has(p, "origins") /\ p.origins # <<>>)
    THEN Out(Raise(<<"origins parameter is required and cannot be empty">>), <<>>, g, cons)
    ELSE IF ~(Has(p, "destinations") /\ p.destinations # <<>>)
    THEN Out(Raise(<<"destinations parameter is required and cannot be empty">>),
             <<>>, g, cons)
    ELSE
    LET mode == Get(p, "mode", "driving")
    IN  IF mode \notin valid_modes
        THEN Out(Raise(<<"mode must be one of: ", "driving, walking, bicycling, transit">>),
                 <<>>, g, cons)
        ELSE
        LET c == get_gmaps_client(g, key, cons)
            req == [op |-> "distance_matrix", client |-> c.client,
                    args |-> [origins |-> p.origins, destinations |-> p.destinations,
                              mode |-> mode, units |-> "imperial"]]
            pre == "Distance matrix error: "
        IN  IF c.raised THEN Out(Wrapped(pre, c.msg), <<>>, c.gmaps, c.constructions)
            ELSE IF ~up.ok
            THEN Out(Wrapped(pre, <<up.err>>), <<req>>, c.gmaps, c.constructions)
            ELSE
            LET rows == Get(up.value, "rows", <<>>)
            IN  Out(Return(
                      [origin_addresses |-> Get(up.value, "origin_addresses", <<>>),
                       destination_addresses |-> Get(up.value, "destination_addresses", <<>>),
                       results |-> [i \in 1..Len(rows) |-> RowEntry(rows[i])]]),
                    <<req>>, c.gmaps, c.constructions)

-----------------------------------------------------------------------------
(* maps_elevation *)
LocDicts ==
    {Coordinate(<<90, -180>>), Coordinate(<<91, 0>>), Coordinate(<<0, 181>>),
     Coordinate(<<-91, -181>>)}
ElevationParams ==
    {EmptyDict} \cup {[locations |-> s] : s \in SeqsUpTo(LocDicts, MaxLocs)}
    \cup {[locations |-> s] : s \in {<<[longitude |-> 0]>>,
                                      <<Coordinate(<<90, -180>>), [latitude |-> 91]>>}}
ElevationResponses ==
    UpstreamFailures
    \cup {Answers(<<[elevation |-> 12, location |-> [lat |-> 90, lng |-> -180],
                     resolution |-> 9], EmptyDict>>)}

\* the check of one location: lines 239-246
RaisedFor(loc) ==
    IF ~Has(loc, "latitude") \/ ~Has(loc, "longitude")
    THEN <<"Each location must contain both latitude and longitude">>
    ELSE IF ~(-90 <= loc.latitude /\ loc.latitude <= 90)
    THEN <<"latitude ", ToString(loc.latitude), " must be between -90 and 90">>
    ELSE IF ~(-180 <= loc.longitude /\ loc.longitude <= 180)
    THEN <<"longitude ", ToString(loc.longitude), " must be between -180 and 180">>
    ELSE <<>>

RECURSIVE ValidateLocations_from_the_end(_)
ValidateLocations_from_the_end(locations) ==
    IF locations = <<>> THEN <<>>
    ELSE IF RaisedFor(locations[Len(locations)]) # <<>>
    THEN RaisedFor(locations[Len(locations)])
    ELSE ValidateLocations_from_the_end(SubSeq(locations, 1, Len(locations) - 1))

\* the validation loop, lines 237-248: the message raised, or <<>> when the loop
\* runs to its end
RECURSIVE ValidateLocations(_)
ValidateLocations(locations) ==
    IF locations = <<>> THEN <<>>
    ELSE IF RaisedFor(Head(locations)) # <<>> THEN RaisedFor(Head(locations))
    ELSE ValidateLocations(Tail(locations))

ElevationEntry(r) ==
    [elevation |-> Get(r, "elevation", 0), location |-> Get(r, "location", EmptyDict),
     resolution |-> Get(r, "resolution", 0)]

maps_elevation(p, up, g, key, cons) ==
    IF ~(Has(p, "locations") /\ p.locations # <<>>)
    THEN Out(Raise(<<"locations parameter is required and cannot be empty">>), <<>>, g, cons)
    ELSE IF ValidateLocations(p.locations) # <<>>
    THEN Out(Raise(ValidateLocations(p.locations)), <<>>, g, cons)
    ELSE
    LET location_tuples ==
            [i \in 1..Len(p.locations) |->
                <<p.locations[i].latitude, p.locations[i].longitude>>]
        c == get_gmaps_client(g, key, cons)
        req == [op |-> "elevation", client |-> c.client,
                args |-> [locations |-> location_tuples]]
        pre == "Elevation error: "
    IN  IF c.raised THEN Out(Wrapped(pre, c.msg), <<>>, c.gmaps, c.constructions)
        ELSE IF ~up.ok THEN Out(Wrapped(pre, <<up.err>>), <<req>>, c.gmaps, c.constructions)
        ELSE Out(Return([results |-> [i \in 1..Len(up.value) |-> ElevationEntry(up.value[i])]]),
                 <<req>>, c.gmaps, c.constructions)

-----------------------------------------------------------------------------
(* maps_directions *)
Step1 ==
    [html_instructions |-> "Head <b>north</b>", distance |-> "0.1 mi", duration |-> "1 min",
     travel_mode |-> "DRIVING"]
Leg1 == [distance |-> "1.0 mi", duration |-> "5 mins", steps |-> <<Step1, EmptyDict>>]
Leg2 == [distance |-> "2.0 mi", duration |-> "9 mins", steps |-> <<Step1>>]
\* a route without 'legs', one with an empty list of legs, one with two legs
Routes ==
    {[summary |-> "route1"], [summary |-> "route2", legs |-> <<>>],
     [summary |-> "route3", legs |-> <<Leg1, Leg2>>]}
DirectionsResponses ==
    UpstreamFailures \cup {Answers(s) : s \in SeqsUpTo(Routes, MaxRoutes)}
DirectionsParams ==
    {Merge([origin |-> "A", destination |-> "B"], m) : m \in OptionalMode}
    \cup {[origin |-> "", destination |-> "B", mode |-> "flying"], [origin |-> "A"]}

StepEntry(step) ==
    [instructions |-> Get(step, "html_instructions", ""),
     distance |-> Get(step, "distance", PyNone), duration |-> Get(step, "duration", PyNone),
     travel_mode |-> Get(step, "travel_mode", "")]

\* `route.get("legs", [{}])`
LegsOf(route) == Get(route, "legs", <<EmptyDict>>)

\* the body of the loop over the routes, lines 292-312, for a route whose
\* `[0]` does not raise
RouteEntry(route) ==
    LET leg == LegsOf(route)[1]
        steps == Get(leg, "steps", <<>>)
    IN  [summary |-> Get(route, "summary", ""),
         distance |-> Get(leg, "distance", PyNone),
         duration |-> Get(leg, "duration", PyNone),
         steps |-> [i \in 1..Len(steps) |-> StepEntry(steps[i])]]

maps_directions(p, up, g, key, cons) ==
    IF ~(Has(p, "origin") /\ p.origin # "")
    THEN Out(Raise(<<"origin parameter is required">>), <<>>, g, cons)
    ELSE IF ~(Has(p, "destination") /\ p.destination # "")
    THEN Out(Raise(<<"destination parameter is required">>), <<>>, g, cons)
    ELSE
    LET mode == Get(p, "mode", "driving")
    IN  IF mode \notin valid_modes
        THEN Out(Raise(<<"mode must be one of: ", "driving, walking, bicycling, transit">>),
                 <<>>, g, cons)
        ELSE
        LET c == get_gmaps_client(g, key, cons)
            req == [op |-> "directions", client |-> c.client,
                    args |-> [origin |-> p.origin, destination |-> p.destination,
                              mode |-> mode, units |-> "imperial"]]
            pre == "Directions error: "
        IN  IF c.raised THEN Out(Wrapped(pre, c.msg), <<>>, c.gmaps, c.constructions)
            ELSE IF ~up.ok
            THEN Out(Wrapped(pre, <<up.err>>), <<req>>, c.gmaps, c.constructions)
            ELSE IF \E i \in 1..Len(up.value) : LegsOf(up.value[i]) = <<>>
            \* `[][0]` raises IndexError inside the try
            THEN Out(Wrapped(pre, <<"list index out of range">>),
                     <<req>>, c.gmaps, c.constructions)
            ELSE Out(Return([routes |-> [i \in 1..Len(up.value) |-> RouteEntry(up.value[i])]]),
                     <<req>>, c.gmaps, c.constructions)

-----------------------------------------------------------------------------
(* Tool catalog *)
TOOL_FUNCTIONS_misspelt ==
    [maps_geocode |-> "maps_geocode", maps_reverse_geocode |-> "maps_reverse_geocode",
     maps_search_places |-> "maps_search_places", maps_place_details |-> "maps_place_details",
     maps_distance_matrix |-> "maps_distance_matrix", maps_elevation |-> "maps_elevation",
     maps_direction |-> "maps_directions"]

\* tool name |-> the handler function registered under it
TOOL_FUNCTIONS ==
    [maps_geocode |-> "maps_geocode", maps_reverse_geocode |-> "maps_reverse_geocode",
     maps_search_places |-> "maps_search_places", maps_place_details |-> "maps_place_details",
     maps_distance_matrix |-> "maps_distance_matrix", maps_elevation |-> "maps_elevation",
     maps_directions |-> "maps_directions"]

\* a call of the handler function `handler`
Invoke(handler, p, up, g, key, cons) ==
    CASE handler = "maps_geocode" -> maps_geocode(p, up, g, key, cons)
      [] handler = "maps_reverse_geocode" -> maps_reverse_geocode(p, up, g, key, cons)
      [] handler = "maps_search_places" -> maps_search_places(p, up, g, key, cons)
      [] handler = "maps_place_details" -> maps_place_details(p, up, g, key, cons)
      [] handler = "maps_distance_matrix" -> maps_distance_matrix(p, up, g, key, cons)
      [] handler = "maps_elevation" -> maps_elevation(p, up, g, key, cons)
      [] handler = "maps_directions" -> maps_directions(p, up, g, key, cons)

NoHandler == "<none>"

\* dispatch(name, params): the lookup in the catalog, then the handler found
dispatch(name, p, up, g, key, cons) ==
    IF name \in DOMAIN TOOL_FUNCTIONS
    THEN Merge([tool |-> TOOL_FUNCTIONS[name]],
               Invoke(TOOL_FUNCTIONS[name], p, up, g, key, cons))
    ELSE [tool |-> NoHandler,
          result |-> [ok |-> FALSE, exc |-> "UnknownToolError",
                      msg |-> <<"Unknown tool: ", name>>],
          requests |-> <<>>, gmaps |-> g, constructions |-> cons]

-----------------------------------------------------------------------------
(* The process running one tool call after another *)
Threads == 1..NThreads
NoResponse == Fails("<no request>")
NoCall ==
    [name |-> "", tool |-> NoHandler, params |-> EmptyDict, up |-> NoResponse,
     result |-> Return(EmptyDict), requests |-> <<>>, built |-> 0]

\* the module is loaded: lines 15-19
Init ==
    /\ environ \in EnvValues
    /\ GOOGLE_MAPS_API_KEY = environ
    /\ gmaps = NoClient
    /\ constructions = 0
    /\ last = NoCall
    /\ pc = [t \in Threads |-> "idle"]
    /\ tmp = [t \in Threads |-> NoClient]
    /\ ret = [t \in Threads |-> NoClient]
    /\ objs = <<>>

Call(name, p, up) ==
    LET o == dispatch(name, p, up, gmaps, GOOGLE_MAPS_API_KEY, constructions)
    IN  /\ gmaps' = o.gmaps
        /\ constructions' = o.constructions
        /\ last' = [name |-> name, tool |-> o.tool, params |-> p,
                    up |-> IF o.requests = <<>> THEN NoResponse ELSE up,
                    result |-> o.result, requests |-> o.requests,
                    built |-> o.constructions - constructions]
        /\ UNCHANGED <<environ, GOOGLE_MAPS_API_KEY, pc, tmp, ret, objs>>

\* no thread is inside get_gmaps_client: the calls run one after another
Sequential == \A t \in Threads : pc[t] = "idle"

Geocode ==
    /\ Sequential
    /\ \E p \in GeocodeParams, up \in GeoResponses : Call("maps_geocode", p, up)
ReverseGeocode ==
    /\ Sequential
    /\ \E p \in ReverseGeocodeParams, up \in GeoResponses :
            Call("maps_reverse_geocode", p, up)
SearchPlaces ==
    /\ Sequential
    /\ \E p \in SearchPlacesParams, up \in PlacesResponses :
            Call("maps_search_places", p, up)
PlaceDetails ==
    /\ Sequential
    /\ \E p \in PlaceDetailsParams, up \in DetailsResponses :
            Call("maps_place_details", p, up)
DistanceMatrix ==
    /\ Sequential
    /\ \E p \in DistanceMatrixParams, up \in MatrixResponses :
            Call("maps_distance_matrix", p, up)
Elevation ==
    /\ Sequential
    /\ \E p \in ElevationParams, up \in ElevationResponses : Call("maps_elevation", p, up)
Directions ==
    /\ Sequential
    /\ \E p \in DirectionsParams, up \in DirectionsResponses :
            Call("maps_directions", p, up)

UnknownNames == {"maps_unknown", "geocode", "MAPS_GEOCODE"}
DispatchUnknown ==
    /\ Sequential
    /\ \E name \in UnknownNames, p \in GeocodeParams : Call(name, p, NoResponse)

\* the environment of the process is changed after the module was loaded
EnvChange ==
    /\ \E v \in EnvValues \ {environ} : environ' = v
    /\ UNCHANGED <<GOOGLE_MAPS_API_KEY, gmaps, constructions, last, pc, tmp, ret, objs>>

Next ==
    \/ Geocode
    \/ ReverseGeocode
    \/ SearchPlaces
    \/ PlaceDetails
    \/ DistanceMatrix
    \/ Elevation
    \/ Directions
    \/ DispatchUnknown
    \/ EnvChange

Spec == Init /\ [][Next]_vars

-----------------------------------------------------------------------------
(* Threads racing in get_gmaps_client, one statement at a time.  objs[h] is   *)
(* the state of the h-th googlemaps.Client object: "partial" while its        *)
(* __init__ runs, "full" once the constructor has returned.                   *)
RaceInit ==
    /\ environ \in EnvValues
    /\ GOOGLE_MAPS_API_KEY = environ
    /\ gmaps = NoClient
    /\ constructions = 0
    /\ last = NoCall
    /\ pc = [t \in Threads |-> "idle"]
    /\ tmp = [t \in Threads |-> NoClient]
    /\ ret = [t \in Threads |-> NoClient]
    /\ objs = <<>>

Static == <<environ, GOOGLE_MAPS_API_KEY, last>>

\* a handler running in thread t calls get_gmaps_client()
RaceCall(t) ==
    /\ pc[t] = "idle"
    /\ pc' = [pc EXCEPT ![t] = "line25"]
    /\ tmp' = [tmp EXCEPT ![t] = NoClient]
    /\ ret' = [ret EXCEPT ![t] = NoClient]
    /\ UNCHANGED <<gmaps, constructions, objs, Static>>

\* line 25: if gmaps is None
RaceCheck(t) ==
    /\ pc[t] = "line25"
    /\ pc' = [pc EXCEPT ![t] = IF gmaps = NoClient THEN "line26" ELSE "line29"]
    /\ UNCHANGED <<gmaps, constructions, tmp, ret, objs, Static>>

\* lines 26-27: if not GOOGLE_MAPS_API_KEY: raise
RaceKey(t) ==
    /\ pc[t] = "line26"
    /\ pc' = [pc EXCEPT ![t] = IF KeyMissing(GOOGLE_MAPS_API_KEY) THEN "raised" ELSE "line28"]
    /\ UNCHANGED <<gmaps, constructions, tmp, ret, objs, Static>>

RaceNew_published_early(t) ==
    /\ pc[t] = "line28"
    /\ objs' = Append(objs, "partial")
    /\ constructions' = constructions + 1
    /\ tmp' = [tmp EXCEPT ![t] = Len(objs) + 1]
    /\ gmaps' = Len(objs) + 1
    /\ pc' = [pc EXCEPT ![t] = "line28_init"]
    /\ UNCHANGED <<ret, Static>>

\* line 28, right-hand side: googlemaps.Client(...) is entered, the object exists
RaceNew(t) ==
    /\ pc[t] = "line28"
    /\ objs' = Append(objs, "partial")
    /\ constructions' = constructions + 1
    /\ tmp' = [tmp EXCEPT ![t] = Len(objs) + 1]
    /\ pc' = [pc EXCEPT ![t] = "line28_init"]
    /\ UNCHANGED <<gmaps, ret, Static>>

\* line 28, right-hand side: the constructor returns
RaceConstructed(t) ==
    /\ pc[t] = "line28_init"
    /\ objs' = [objs EXCEPT ![tmp[t]] = "full"]
    /\ pc' = [pc EXCEPT ![t] = "line28_store"]
    /\ UNCHANGED <<gmaps, constructions, tmp, ret, Static>>

\* line 28, the assignment: gmaps = <the new client>
RaceStore(t) ==
    /\ pc[t] = "line28_store"
    /\ gmaps' = tmp[t]
    /\ pc' = [pc EXCEPT ![t] = "line29"]
    /\ UNCHANGED <<constructions, tmp, ret, objs, Static>>

\* line 29: return gmaps (the global is read again)
RaceReturn(t) ==
    /\ pc[t] = "line29"
    /\ ret' = [ret EXCEPT ![t] = gmaps]
    /\ pc' = [pc EXCEPT ![t] = "returned"]
    /\ UNCHANGED <<gmaps, constructions, tmp, objs, Static>>

\* the handler goes on with what the accessor gave it and ends
RaceDone(t) ==
    /\ pc[t] \in {"returned", "raised"}
    /\ pc' = [pc EXCEPT ![t] = "idle"]
    /\ UNCHANGED <<gmaps, constructions, tmp, ret, objs, Static>>

RaceNext ==
    \E t \in Threads :
        \/ RaceCall(t)
        \/ RaceCheck(t)
        \/ RaceKey(t)
        \/ RaceNew(t)
        \/ RaceConstructed(t)
        \/ RaceStore(t)
        \/ RaceReturn(t)
        \/ RaceDone(t)

RaceSpec == RaceInit /\ [][RaceNext]_vars

-----------------------------------------------------------------------------
(* The failure kinds of the specification, read off the exception raised *)
Prefixes ==
    {"Geocoding error: ", "Reverse geocoding error: ", "Places search error: ",
     "Place details error: ", "Distance matrix error: ", "Elevation error: ",
     "Directions error: "}
ValidationTexts ==
    {"address parameter is required", "latitude and longitude parameters are required",
     "latitude must be between -90 and 90", "longitude must be between -180 and 180",
     "query parameter is required", "radius must be between 1 and 50000 meters",
     "place_id parameter is required", "origins parameter is required and cannot be empty",
     "destinations parameter is required and cannot be empty", "mode must be one of: ",
     "locations parameter is required and cannot be empty",
     "Each location must contain both latitude and longitude", "latitude ", "longitude ",
     "origin parameter is required", "destination parameter is required"}
IsValidationError(r) ==
    /\ ~r.ok
    /\ r.exc = "ValueError"
    /\ \/ r.msg[1] \in ValidationTexts
       \/ r.msg = <<"Places search error: ",
                    "location must contain both latitude and longitude">>
IsConfigurationError(r) ==
    /\ ~r.ok
    /\ r.exc = "ValueError"
    /\ Len(r.msg) = 2
    /\ r.msg[1] \in Prefixes
    /\ r.msg[2] = "GOOGLE_MAPS_API_KEY environment variable is not set"

SevenTools ==
    {"maps_geocode", "maps_reverse_geocode", "maps_search_places", "maps_place_details",
     "maps_distance_matrix", "maps_elevation", "maps_directions"}
FourModes == {"driving", "walking", "bicycling", "transit"}
InRange(c) ==
    /\ -90 <= c.latitude /\ c.latitude <= 90
    /\ -180 <= c.longitude /\ c.longitude <= 180
HasBoth(c) == Has(c, "latitude") /\ Has(c, "longitude")
IsCoordinate(c) == HasBoth(c) /\ InRange(c)
NonEmpty(p, k, empty) == Has(p, k) /\ p[k] # empty

\* an input the data model of the specification does not admit (an empty
\* location dict is read as no location, as the handler reads it)
InvalidInput(tool, p) ==
    CASE tool = "maps_geocode" -> ~NonEmpty(p, "address", "")
      [] tool = "maps_reverse_geocode" -> ~IsCoordinate(p)
      [] tool = "maps_search_places" ->
            \/ ~NonEmpty(p, "query", "")
            \/ Has(p, "radius") /\ ~(p.radius \in 1..50000)
            \/ NonEmpty(p, "location", EmptyDict) /\ ~IsCoordinate(p.location)
      [] tool = "maps_place_details" -> ~NonEmpty(p, "place_id", "")
      [] tool = "maps_distance_matrix" ->
            \/ ~NonEmpty(p, "origins", <<>>)
            \/ ~NonEmpty(p, "destinations", <<>>)
            \/ Has(p, "mode") /\ p.mode \notin FourModes
      [] tool = "maps_elevation" ->
            \/ ~NonEmpty(p, "locations", <<>>)
            \/ \E i \in 1..Len(p.locations) : ~IsCoordinate(p.locations[i])
      [] tool = "maps_directions" ->
            \/ ~NonEmpty(p, "origin", "")
            \/ ~NonEmpty(p, "destination", "")
            \/ Has(p, "mode") /\ p.mode \notin FourModes

\* C1: in a process that has the credential, every handler call whose input is
\* malformed, out of range or missing a required value fails with a validation
\* error and sends no upstream request; reverse geocode with both coordinates
\* in range reaches the upstream call.
C1_InvalidInputNeverReachesUpstream ==
    (last.tool \in SevenTools /\ ~KeyMissing(GOOGLE_MAPS_API_KEY)) =>
        /\ InvalidInput(last.tool, last.params) =>
              IsValidationError(last.result) /\ last.requests = <<>>
        /\ (last.tool = "maps_reverse_geocode" /\ IsCoordinate(last.params)
            /\ gmaps # NoClient) => Len(last.requests) = 1

\* C2: maps_elevation, given locations that all hold both coordinates and of
\* which at least one is out of range, raises a validation error that names an
\* out-of-range value of the first out-of-range location, sends no upstream
\* request, constructs no client and returns nothing.
C2_ElevationFirstInvalidAborts ==
    (/\ last.tool = "maps_elevation"
     /\ NonEmpty(last.params, "locations", <<>>)
     /\ \A i \in 1..Len(last.params.locations) : HasBoth(last.params.locations[i])
     /\ \E i \in 1..Len(last.params.locations) : ~InRange(last.params.locations[i]))
    => LET locs == last.params.locations
           first == CHOOSE i \in 1..Len(locs) :
                        /\ ~InRange(locs[i])
                        /\ \A j \in 1..(i - 1) : InRange(locs[j])
           lat == locs[first].latitude
           lng == locs[first].longitude
           offending ==
               (IF -90 <= lat /\ lat <= 90 THEN {} ELSE {<<"latitude ", ToString(lat)>>})
               \cup (IF -180 <= lng /\ lng <= 180 THEN {}
                     ELSE {<<"longitude ", ToString(lng)>>})
       IN  /\ IsValidationError(last.result)
           /\ Len(last.result.msg) = 3
           /\ <<last.result.msg[1], last.result.msg[2]>> \in offending
           /\ last.requests = <<>>
           /\ last.built = 0
C2_Witness ==
    /\ last.tool = "maps_elevation"
    /\ NonEmpty(last.params, "locations", <<>>)
    /\ Len(last.params.locations) = MaxLocs
    /\ \A i \in 1..(MaxLocs - 1) : IsCoordinate(last.params.locations[i])
    /\ HasBoth(last.params.locations[MaxLocs])
    /\ ~InRange(last.params.locations[MaxLocs])
    /\ IsValidationError(last.result)
    /\ last.requests = <<>>

\* C3: maps_search_places, given a query, a location that is absent or holds
\* both coordinates and a radius that is absent or within 1..50000, is not
\* rejected, and the request it sends (it sends one when there is a client)
\* carries the location and radius if both were given and nothing but the query
\* otherwise.
C3_BiasOnlyWithLocationAndRadius ==
    (/\ last.tool = "maps_search_places"
     /\ NonEmpty(last.params, "query", "")
     /\ Has(last.params, "location") => HasBoth(last.params.location)
     /\ Has(last.params, "radius") => last.params.radius \in 1..50000)
    => LET p == last.params
           bias == IF Has(p, "location") /\ Has(p, "radius")
                   THEN [location |-> <<p.location.latitude, p.location.longitude>>,
                         radius |-> p.radius]
                   ELSE EmptyDict
       IN  /\ ~IsValidationError(last.result)
           /\ IF gmaps = NoClient
              THEN last.requests = <<>> /\ IsConfigurationError(last.result)
              ELSE last.requests =
                      <<[op |-> "places", client |-> gmaps,
                         args |-> [query |-> p.query, search_params |-> bias]]>>
C3_Witness ==
    /\ last.tool = "maps_search_places"
    /\ Has(last.params, "location")
    /\ ~Has(last.params, "radius")
    /\ Len(last.requests) = 1
    /\ last.requests[1].args = [query |-> last.params.query, search_params |-> EmptyDict]
    /\ last.result.ok

\* C4: in a sequential run, once the client is cached every later step leaves
\* the cache and the number of constructions as they are, every request is sent
\* on the cached client, and the client is constructed at most once.
C4_ClientConstructedOnce ==
    [][/\ gmaps # NoClient => gmaps' = gmaps /\ constructions' = constructions
       /\ constructions' <= 1
       /\ \A i \in 1..Len(last'.requests) : last'.requests[i].client = gmaps']_vars
C4_Witness ==
    /\ gmaps # NoClient
    /\ last.built = 0
    /\ Len(last.requests) = 1
    /\ last.requests[1].client = gmaps

ReachedAccessor(l) == l.tool \in SevenTools /\ ~IsValidationError(l.result)

C6_NotFoundIsItsOwnKind ==
    (/\ last.tool \in {"maps_geocode", "maps_reverse_geocode"}
     /\ Len(last.requests) = 1
     /\ last.up.ok
     /\ last.up.value = <<>>)
    => /\ ~last.result.ok
       /\ \A m \in UpstreamErrors :
            LET u == Invoke(last.tool, last.params, Fails(m), gmaps,
                            GOOGLE_MAPS_API_KEY, constructions).result
            IN  <<last.result.exc, last.result.msg[1]>> # <<u.exc, u.msg[1]>>

OpOf(name) ==
    CASE name = "maps_geocode" -> "geocode"
      [] name = "maps_reverse_geocode" -> "reverse_geocode"
      [] name = "maps_search_places" -> "places"
      [] name = "maps_place_details" -> "place"
      [] name = "maps_distance_matrix" -> "distance_matrix"
      [] name = "maps_elevation" -> "elevation"
      [] name = "maps_directions" -> "directions"

\* C7: dispatch of a name that is not one of the seven tool names fails with
\* UnknownToolError, sends no upstream request and constructs no client;
\* dispatch of one of the seven names runs the handler of that name.
C7_DispatchByName ==
    last # NoCall =>
        IF last.name \in SevenTools
        THEN /\ last.tool = last.name
             /\ \A i \in 1..Len(last.requests) : last.requests[i].op = OpOf(last.name)
             /\ last.result.ok \/ last.result.exc = "ValueError"
        ELSE /\ ~last.result.ok
             /\ last.result.exc = "UnknownToolError"
             /\ last.requests = <<>>
             /\ last.built = 0
C7_Witness ==
    /\ last # NoCall
    /\ last.name \notin SevenTools
    /\ ~last.result.ok
    /\ last.result.exc = "UnknownToolError"
    /\ gmaps = NoClient

\* C8: maps_distance_matrix and maps_directions reject a mode outside the four
\* modes with a validation error and no upstream request; every request they
\* send carries the mode asked for, driving when none was given, and imperial
\* units; a call with valid input and a client sends one.
C8_ModeValidatedAndDefaulted ==
    last.tool \in {"maps_distance_matrix", "maps_directions"} =>
        /\ (Has(last.params, "mode") /\ last.params.mode \notin FourModes) =>
              IsValidationError(last.result) /\ last.requests = <<>>
        /\ \A i \in 1..Len(last.requests) :
              /\ last.requests[i].args.mode =
                    (IF Has(last.params, "mode") THEN last.params.mode ELSE "driving")
              /\ last.requests[i].args.mode \in FourModes
              /\ last.requests[i].args.units = "imperial"
        /\ (~InvalidInput(last.tool, last.params) /\ gmaps # NoClient) =>
              Len(last.requests) = 1
C8_Witness ==
    /\ last.tool \in {"maps_distance_matrix", "maps_directions"}
    /\ ~Has(last.params, "mode")
    /\ Len(last.requests) = 1
    /\ last.requests[1].args.mode = "driving"
    /\ last.requests[1].args.units = "imperial"

\* C9: maps_directions, whenever the upstream call succeeds, returns one entry
\* per route, in order, each built from the first leg of its route when the
\* route has one, whatever the shape of the routes (no 'legs', empty 'legs',
\* several legs).
C9_DirectionsFirstLegOfEveryRoute ==
    (/\ last.tool = "maps_directions"
     /\ Len(last.requests) = 1
     /\ last.up.ok)
    => /\ last.result.ok
       /\ Len(last.result.value.routes) = Len(last.up.value)
       /\ \A i \in 1..Len(last.up.value) :
            LET route == last.up.value[i]
                entry == last.result.value.routes[i]
            IN  /\ entry.summary = Get(route, "summary", "")
                /\ (Has(route, "legs") /\ route.legs # <<>>) =>
                      /\ entry.distance = Get(route.legs[1], "distance", PyNone)
                      /\ entry.duration = Get(route.legs[1], "duration", PyNone)
                      /\ Len(entry.steps) = Len(Get(route.legs[1], "steps", <<>>))

\* C10: with the credential present, in every interleaving of the threads the
\* cache and every handle a caller was given is a fully constructed client,
\* every caller that returned was given one, no caller fails, the cache holds
\* one from the first return on, and nothing but the number of constructions
\* (at most one per thread) differs from a sequential run.
C10_RaceIsBenign ==
    ~KeyMissing(GOOGLE_MAPS_API_KEY) =>
        /\ gmaps # NoClient => gmaps \in 1..Len(objs) /\ objs[gmaps] = "full"
        /\ \A t \in Threads :
            /\ ret[t] # NoClient => ret[t] \in 1..Len(objs) /\ objs[ret[t]] = "full"
            /\ pc[t] = "returned" => ret[t] # NoClient /\ gmaps # NoClient
            /\ pc[t] # "raised"
        /\ constructions = Len(objs)
        /\ constructions <= NThreads
C10_Witness ==
    /\ constructions = NThreads
    /\ \A t \in Threads : pc[t] = "returned" /\ objs[ret[t]] = "full"
    /\ gmaps # NoClient
    /\ objs[gmaps] = "full"

====
